---------------------------- MODULE Spec2Model ----------------------------
(***************************************************************************)
(* A model of the MCPie tool server (src/main.ts and src/unnamed/part_000). *)
(*                                                                         *)
(* The specifications:                                                     *)
(*   Spec        the ToolRegistry class used through its public methods    *)
(*               (register, registerAll, getTools, handleToolCall) with    *)
(*               handlers of every behaviour a handler can have.           *)
(*   SpecServer  main() of src/unnamed/part_000: one shared Server, the    *)
(*               activeTransports map, GET /sse, POST /message/:id and the  *)
(*               server.onclose callback.                                  *)
(*   FairSpec    Spec with the event loop's fairness.                      *)
(*   SpecRegisterAll  one registerAll on a registry built by register.     *)
(*   SpecTools   one call of a built-in tool of either file.               *)
(*                                                                         *)
(* Strings are sequences of one-character strings.  A Chinese literal of    *)
(* the source is a sequence of ASCII tokens, one per character (the two    *)
(* prefixes of handleToolCall) or one for the whole literal.               *)
(***************************************************************************)
EXTENDS Integers, Sequences, FiniteSets, TLC

\* ------------------------------------------------------------------ bounds
MaxOps == 3       \* register, registerAll and handleToolCall operations of a behaviour of Spec
MaxBatch == 2     \* longest argument of registerAll
MaxServerOps == 3 \* GET /sse and POST /message requests of a behaviour of SpecServer
NumUuids == 3     \* connection identifiers uuidv4 can draw
MaxTextLen == 3   \* longest text drawn from the alphabet for textStats and readpoPoster
MaxBase == 2      \* entries of the registry registerAll is called on in SpecRegisterAll

\* ----------------------------------------------------------------- strings
RECURSIVE Digits(_)
\* Number.prototype.toString for a natural number.
Digits(n) ==
    LET d == <<"0", "1", "2", "3", "4", "5", "6", "7", "8", "9">>
    IN  IF n < 10 THEN <<d[n + 1]>> ELSE Digits(n \div 10) \o <<d[(n % 10) + 1]>>

\* String.prototype.includes
Contains(text, sub) ==
    \E i \in 1..(Len(text) - Len(sub) + 1) : SubSeq(text, i, i + Len(sub) - 1) = sub

\* The literal of the unknown-tool message, 4 Chinese characters, ':' and ' '.
UnknownToolPrefix == <<"wei", "zhi", "gong", "ju", ":", " ">>
\* The literal of the tool-execution-error message, 6 Chinese characters, ':' and ' '.
ToolErrorPrefix == <<"gong", "ju", "zhi'", "xing", "cuo", "wu", ":", " ">>

\* ------------------------------------------------------------ JS values
\* Values a handler can throw or reject with.
ErrorValue(msg) == [kind |-> "Error", message |-> msg]
StringValue(s) == [kind |-> "string", value |-> s]
NumberValue(n) == [kind |-> "number", number |-> n]
\* Object.create(null): an object with no toString/valueOf.
NullProtoObject == [kind |-> "nullproto"]
TypeErrorToPrimitive ==
    ErrorValue(<<"C", "a", "n", "n", "o", "t", " ", "c", "o", "n", "v", "e", "r", "t">>)

Completed(v) == [threw |-> FALSE, value |-> v]
Threw(e) == [threw |-> TRUE, value |-> e]

\* `error instanceof Error`
InstanceOfError(e) == e.kind = "Error"

\* String(error): a string for a primitive, a TypeError for an object that
\* cannot be converted to a primitive.
JsString(e) ==
    CASE e.kind = "string" -> Completed(e.value)
      [] e.kind = "number" -> Completed(Digits(e.number))
      [] e.kind = "Error" -> Completed(<<"E", "r", "r", "o", "r", ":", " ">> \o e.message)
      [] e.kind = "nullproto" -> Threw(TypeErrorToPrimitive)

\* `error instanceof Error ? error.message : String(error)`
ErrorText(e) == IF InstanceOfError(e) THEN Completed(e.message) ELSE JsString(e)

createTextResponseFlagOnError(text, isError) ==
    IF isError
    THEN [content |-> <<[type |-> "text", text |-> text]>>, isError |-> TRUE]
    ELSE [content |-> <<[type |-> "text", text |-> text]>>]
\* createTextResponse(text, isError = false)
createTextResponse(text, isError) ==
    [content |-> <<[type |-> "text", text |-> text]>>, isError |-> isError]


Undefined == [kind |-> "undefined"]

\* `typeof v === "string"`
IsString(v) == v.kind = "string"

\* The characters String.prototype.trim removes.
WhiteSpace == {" ", "\t", "\n", "\r"}

RECURSIVE TrimStart(_)
TrimStart(str) ==
    IF str # <<>> /\ Head(str) \in WhiteSpace THEN TrimStart(Tail(str)) ELSE str

RECURSIVE TrimEnd(_)
TrimEnd(str) ==
    IF str # <<>> /\ str[Len(str)] \in WhiteSpace
    THEN TrimEnd(SubSeq(str, 1, Len(str) - 1))
    ELSE str

\* String.prototype.trim
Trim(str) == TrimEnd(TrimStart(str))

\* encodeURIComponent of one character: unreserved characters are kept, the others
\* are percent-encoded.
EncodeChar(ch) ==
    CASE ch = " " -> <<"%", "2", "0">>
      [] ch = "\n" -> <<"%", "0", "A">>
      [] ch = "\t" -> <<"%", "0", "9">>
      [] ch = "\r" -> <<"%", "0", "D">>
      [] ch = "#" -> <<"%", "2", "3">>
      [] ch = "\"" -> <<"%", "2", "2">>
      [] ch = "/" -> <<"%", "2", "F">>
      [] ch = ":" -> <<"%", "3", "A">>
      [] OTHER -> <<ch>>

RECURSIVE EncodeChars(_)
EncodeChars(str) ==
    IF str = <<>> THEN <<>> ELSE EncodeChar(Head(str)) \o EncodeChars(Tail(str))

\* A UTF-16 surrogate code unit with no partner (the JSON text "\ud800").
LoneSurrogate == "[D800]"
URIError == [kind |-> "Error", message |-> <<"U", "R", "I", " ", "m", "a", "l", "f", "o", "r", "m", "e", "d">>]

\* encodeURIComponent: throws a URIError for a string holding a lone surrogate.
encodeURIComponent(str) ==
    IF \E i \in 1..Len(str) : str[i] = LoneSurrogate
    THEN Threw(URIError)
    ELSE Completed(EncodeChars(str))

\* ------------------------------------------------------------ JS Map
\* A Map is the sequence of its <<key, value>> pairs in insertion order.
MapHas(m, k) == \E i \in 1..Len(m) : m[i][1] = k
MapIndex(m, k) == CHOOSE i \in 1..Len(m) : m[i][1] = k
MapGet(m, k) == m[MapIndex(m, k)][2]
MapSetMoveToEnd(m, k, v) == Append(SelectSeq(m, LAMBDA p : p[1] # k), <<k, v>>)
\* Map.prototype.set: an existing key keeps its position, a new key is appended.
MapSet(m, k, v) ==
    IF MapHas(m, k) THEN [m EXCEPT ![MapIndex(m, k)] = <<k, v>>] ELSE Append(m, <<k, v>>)
\* Map.prototype.delete
MapDelete(m, k) == SelectSeq(m, LAMBDA p : p[1] # k)
\* Array.from(m.keys())
MapKeysInOrder(m) == [i \in 1..Len(m) |-> m[i][1]]
\* Array.from(m.values())
MapValues(m) == [i \in 1..Len(m) |-> m[i][2]]
MapKeys(m) == {m[i][1] : i \in 1..Len(m)}

\* ------------------------------------------------------------ handlers
\* The handlers used to exercise the registry: one per behaviour a function of
\* type (args) => Promise<CallToolResult> can have.
\*   hOk, hErrResult, hThrowSync, hReject, hRejectStr, hThrowNum, hThrowObj, hHang,
\*   and hRejectOrHang, which fails on an empty argument bag and otherwise never
\*   completes.
NoHandler == "none"

\* Argument bags (serialised).
Args == {<<>>, <<"x">>}

NoValue == [kind |-> "none"]
Fulfilled(v) == [fate |-> "fulfilled", value |-> v]
Rejected(e) == [fate |-> "rejected", value |-> e]

\* ---- the built-in tools of src/unnamed/part_000
\* The arguments a built-in handler reads from its argument bag.
Bag(url, meta, markdown) == [url |-> url, meta |-> meta, markdown |-> markdown]
\* `request.params.arguments ?? {}`
EmptyBag == Bag(Undefined, Undefined, Undefined)

LowerCase(ch) ==
    CASE ch = "H" -> "h" [] ch = "T" -> "t" [] ch = "P" -> "p" [] ch = "S" -> "s"
      [] OTHER -> ch

\* /^https?:\/\/.+/i.test(url): `.` matches any character but a line terminator.
IsHttpUrl(str) ==
    LET low == [i \in 1..Len(str) |-> LowerCase(str[i])]
        Rest(n) == Len(str) > n /\ str[n + 1] \notin {"\n", "\r"}
    IN  \/ Rest(7) /\ SubSeq(low, 1, 7) = <<"h", "t", "t", "p", ":", "/", "/">>
        \/ Rest(8) /\ SubSeq(low, 1, 8) = <<"h", "t", "t", "p", "s", ":", "/", "/">>

\* What the outbound request of fetchMetaTags can come to.
FetchOutcomes ==
    {[kind |-> "networkError", message |-> <<"n", "e", "t">>],
     [kind |-> "status", status |-> 500],
     [kind |-> "unparsable", message |-> <<"j", "s", "o", "n">>],
     [kind |-> "errorField", error |-> <<"e">>],
     [kind |-> "notObject", message |-> <<"i", "n">>],
     [kind |-> "data", data |-> <<"{", "}">>]}

\* Mutant of fetchMetaTags: the status of the response is not looked at.
fetchMetaTagsAnyStatus(args, outcome) ==
    IF ~IsString(args.url) \/ ~IsHttpUrl(args.url.value)
    THEN createTextResponse(<<"[invalid url]">>, TRUE)
    ELSE IF outcome.kind \in {"status", "data"}
    THEN createTextResponse(<<"{", "}">>, FALSE)
    ELSE createTextResponse(<<"[fetch error]">>, TRUE)

\* The handler of fetchMetaTags, with the outcome of its outbound request.
fetchMetaTags(args, outcome) ==
    IF ~IsString(args.url) \/ ~IsHttpUrl(args.url.value)
    THEN createTextResponse(<<"[invalid url]">>, TRUE)
    ELSE CASE outcome.kind = "networkError" ->
                createTextResponse(<<"[fetch error]: ">> \o outcome.message, TRUE)
           [] outcome.kind = "status" ->
                createTextResponse(<<"[request failed, status]: ">> \o Digits(outcome.status), TRUE)
           [] outcome.kind = "unparsable" ->
                createTextResponse(<<"[fetch error]: ">> \o outcome.message, TRUE)
           [] outcome.kind = "errorField" ->
                createTextResponse(<<"[MetaThief API error]: ">> \o outcome.error, TRUE)
           [] outcome.kind = "notObject" ->
                \* `"error" in data` throws a TypeError inside the try block
                createTextResponse(<<"[fetch error]: ">> \o outcome.message, TRUE)
           [] outcome.kind = "data" -> createTextResponse(outcome.data, FALSE)

\* The request fetchMetaTags sends: its url parameter.
OutboundRequest(args) == [url |-> args.url]

AwaitsIOAlways(h, args) == h = "fetchMetaTags"
\* fetchMetaTags suspends on its outbound request only after validation.
AwaitsIO(h, args) ==
    h = "fetchMetaTags" /\ IsString(args.url) /\ IsHttpUrl(args.url.value)

\* The handler of readpoPoster: how its promise settles.  encodeURIComponent is
\* called outside any try block, so what it throws rejects the promise.
readpoPoster(args) ==
    IF ~IsString(args.markdown) \/ Trim(args.markdown.value) = <<>>
    THEN Fulfilled(createTextResponse(<<"[markdown required]">>, TRUE))
    ELSE LET encoded == encodeURIComponent(args.markdown.value)
         IN  IF encoded.threw
             THEN Rejected(encoded.value)
             ELSE Fulfilled(createTextResponse(
                      <<"h", "t", "t", "p", "s", ":", "/", "/", "r", "e", "a", "d", "p", "o",
                        ".", "c", "o", "m", "/", "p", "/">> \o encoded.value,
                      FALSE))

\* ---- the built-in tools of src/main.ts
\* The arguments a built-in handler of main.ts reads from its argument bag.
MainBag(format, timestamp, text) == [format |-> format, timestamp |-> timestamp, text |-> text]

\* `typeof v`
TypeOf(v) ==
    CASE v.kind = "undefined" -> <<"u", "n", "d", "e", "f", "i", "n", "e", "d">>
      [] v.kind = "string" -> <<"s", "t", "r", "i", "n", "g">>
      [] v.kind \in {"number", "millis"} -> <<"n", "u", "m", "b", "e", "r">>
      [] OTHER -> <<"o", "b", "j", "e", "c", "t">>

\* The length of the match of /\s+/ at the start of str (0: no match there).
RECURSIVE WhiteSpaceRun(_)
WhiteSpaceRun(str) ==
    IF str # <<>> /\ Head(str) \in WhiteSpace THEN 1 + WhiteSpaceRun(Tail(str)) ELSE 0

LineBreakMatchEach(str) == IF str # <<>> /\ str[1] \in {"\r", "\n"} THEN 1 ELSE 0
\* The length of the match of /\r\n|\r|\n/ at the start of str (0: no match there).
LineBreakMatch(str) ==
    IF Len(str) >= 2 /\ str[1] = "\r" /\ str[2] = "\n" THEN 2
    ELSE IF str # <<>> /\ str[1] \in {"\r", "\n"} THEN 1
    ELSE 0

SeparatorMatch(separator, str) ==
    IF separator = "whitespace" THEN WhiteSpaceRun(str) ELSE LineBreakMatch(str)

RECURSIVE SplitFrom(_, _, _)
\* String.prototype.split(separator) for a regular expression that matches no
\* empty string: cur is the piece being collected, str what is left to scan.
SplitFrom(separator, cur, str) ==
    IF str = <<>> THEN <<cur>>
    ELSE LET n == SeparatorMatch(separator, str)
         IN  IF n > 0
             THEN <<cur>> \o SplitFrom(separator, <<>>, SubSeq(str, n + 1, Len(str)))
             ELSE SplitFrom(separator, Append(cur, Head(str)), Tail(str))

Split(separator, str) == SplitFrom(separator, <<>>, str)

RECURSIVE CharFrequency(_, _)
\* The entries of charFrequency after the loop over text, in the order
\* Object.entries lists them: the order in which the characters were first met
\* (no character of the texts drawn is a digit, whose keys would come first).
CharFrequency(entries, text) ==
    IF text = <<>> THEN entries
    ELSE LET ch == Head(text)
             seen == \E i \in 1..Len(entries) : entries[i][1] = ch
         IN  CharFrequency(
                 IF seen
                 THEN [i \in 1..Len(entries) |->
                          IF entries[i][1] = ch THEN <<ch, entries[i][2] + 1>> ELSE entries[i]]
                 ELSE Append(entries, <<ch, 1>>),
                 Tail(text))

RECURSIVE SortByCountDesc(_)
\* entries.sort((a, b) => b[1] - a[1]): stable, larger counts first.
SortByCountDesc(entries) ==
    IF entries = <<>> THEN <<>>
    ELSE LET most == CHOOSE i \in 1..Len(entries) :
                         /\ \A j \in 1..Len(entries) : entries[j][2] <= entries[i][2]
                         /\ \A j \in 1..(i - 1) : entries[j][2] < entries[i][2]
         IN  <<entries[most]>> \o
             SortByCountDesc([j \in 1..(Len(entries) - 1) |->
                                 IF j < most THEN entries[j] ELSE entries[j + 1]])

\* The top-10 cut of textStats.
TopCharsLimit == 10

\* `"${label}": ${count}` for one entry.
TopCharEntry(entry) ==
    LET label == CASE entry[1] = " " -> <<"[space]">>
                   [] entry[1] = "\n" -> <<"[newline]">>
                   [] entry[1] = "\t" -> <<"[tab]">>
                   [] OTHER -> <<entry[1]>>
    IN  <<"\"">> \o label \o <<"\"", ":", " ">> \o Digits(entry[2])

RECURSIVE Join(_, _)
\* Array.prototype.join
Join(pieces, separator) ==
    IF pieces = <<>> THEN <<>>
    ELSE IF Len(pieces) = 1 THEN pieces[1]
    ELSE pieces[1] \o separator \o Join(Tail(pieces), separator)

RECURSIVE JsonString(_)
\* JSON.stringify of the characters of a string.
JsonString(str) ==
    IF str = <<>> THEN <<>>
    ELSE (CASE Head(str) = "\"" -> <<"\\", "\"">>
            [] Head(str) = "\n" -> <<"\\", "n">>
            [] Head(str) = "\r" -> <<"\\", "r">>
            [] Head(str) = "\t" -> <<"\\", "t">>
            [] OTHER -> <<Head(str)>>) \o JsonString(Tail(str))

\* `\n  "key": ` of JSON.stringify(result, null, 2); the four keys of the result
\* are Chinese words, written here as one token each.
JsonKey(key) == <<"\n", " ", " ", "\"", key, "\"", ":", " ">>

\* The counts textStats computes for a string.
TextStatsOf(text) ==
    [charCount |-> Len(text),
     wordCount |-> IF Trim(text) # <<>> THEN Len(Split("whitespace", Trim(text))) ELSE 0,
     lineCount |-> Len(Split("linebreak", text)),
     topChars |->
        LET sorted == SortByCountDesc(CharFrequency(<<>>, text))
            top == SubSeq(sorted, 1, IF Len(sorted) < TopCharsLimit THEN Len(sorted)
                                     ELSE TopCharsLimit)
        IN  Join([i \in 1..Len(top) |-> TopCharEntry(top[i])], <<",", " ">>)]

\* JSON.stringify(result, null, 2)
TextStatsJson(stats) ==
    <<"{">> \o JsonKey("[char count]") \o Digits(stats.charCount) \o <<",">>
    \o JsonKey("[word count]") \o Digits(stats.wordCount) \o <<",">>
    \o JsonKey("[line count]") \o Digits(stats.lineCount) \o <<",">>
    \o JsonKey("[common chars]") \o <<"\"">> \o JsonString(stats.topChars) \o <<"\"">>
    \o <<"\n", "}">>

\* The handler of textStats.
textStats(args) ==
    IF ~IsString(args.text)
    THEN createTextResponse(<<"[expected a string, got] ">> \o TypeOf(args.text), TRUE)
    ELSE createTextResponse(TextStatsJson(TextStatsOf(args.text.value)), FALSE)

\* A number of milliseconds, held as whole seconds and the milliseconds left
\* (a timestamp of today does not fit the integers of the checker).
Millis(sec, ms) == [kind |-> "millis", sec |-> sec, ms |-> ms]
NaN == [kind |-> "NaN"]

\* The values `v || ...` replaces.
Falsy(v) ==
    \/ v.kind = "undefined"
    \/ v.kind = "NaN"
    \/ v.kind = "millis" /\ v.sec = 0 /\ v.ms = 0
    \/ v.kind = "number" /\ v.number = 0
    \/ v.kind = "string" /\ v.value = <<>>

\* new Date(v).getTime(): a number is the time value itself; of the strings,
\* only ones that hold no date are drawn as timestamps, and they parse to NaN.
TimeValue(v) == IF v.kind = "millis" THEN v ELSE NaN

\* `${v}`
TemplateString(v) ==
    CASE v.kind = "string" -> v.value
      [] v.kind = "number" -> Digits(v.number)
      [] v.kind = "NaN" -> <<"N", "a", "N">>
      [] v.kind = "undefined" -> <<"u", "n", "d", "e", "f", "i", "n", "e", "d">>

\* The seconds of a day, of an hour and of a minute.
SecondsPerDay == 86400
SecondsPerHour == 3600
SecondsPerMinute == 60

\* getFullYear, getMonth() + 1, getDate, getHours, getMinutes, getSeconds of the
\* date with time value t, in a time zone tzMinutes east of UTC (the proleptic
\* Gregorian calendar, days counted from 0000-03-01).
LocalFields(t, tzMinutes) ==
    LET local == t.sec + tzMinutes * SecondsPerMinute
        days == local \div SecondsPerDay
        secs == local % SecondsPerDay
        z == days + 719468
        era == z \div 146097
        doe == z - era * 146097
        yoe == (doe - doe \div 1460 + doe \div 36524 - doe \div 146096) \div 365
        doy == doe - (365 * yoe + yoe \div 4 - yoe \div 100)
        mp == (5 * doy + 2) \div 153
        month == IF mp < 10 THEN mp + 3 ELSE mp - 9
    IN  [year |-> yoe + era * 400 + (IF month <= 2 THEN 1 ELSE 0),
         month |-> month,
         day |-> doy - (153 * mp + 2) \div 5 + 1,
         hours |-> secs \div SecondsPerHour,
         minutes |-> (secs % SecondsPerHour) \div SecondsPerMinute,
         seconds |-> secs % SecondsPerMinute]

\* n.toString().padStart(2, '0')
PadStart2(n) == IF n < 10 THEN <<"0">> \o Digits(n) ELSE Digits(n)

RECURSIVE ReplaceAll(_, _, _)
\* str.replace(new RegExp(token, 'g'), value) for a token of plain letters and a
\* value of digits: every match, left to right, none overlapping.
ReplaceAll(str, token, value) ==
    IF Len(str) < Len(token) THEN str
    ELSE IF SubSeq(str, 1, Len(token)) = token
    THEN value \o ReplaceAll(SubSeq(str, Len(token) + 1, Len(str)), token, value)
    ELSE <<Head(str)>> \o ReplaceAll(Tail(str), token, value)

\* Object.entries(formatMap), in the order of the literal.
FormatMap(f) ==
    <<<< <<"Y", "Y", "Y", "Y">>, Digits(f.year)>>,
      << <<"M", "M">>, PadStart2(f.month)>>,
      << <<"D", "D">>, PadStart2(f.day)>>,
      << <<"H", "H">>, PadStart2(f.hours)>>,
      << <<"m", "m">>, PadStart2(f.minutes)>>,
      << <<"s", "s">>, PadStart2(f.seconds)>>>>

RECURSIVE ReplaceTokens(_, _)
\* for (const [token, value] of Object.entries(formatMap)) result = result.replace(...)
ReplaceTokens(result, entries) ==
    IF entries = <<>> THEN result
    ELSE ReplaceTokens(ReplaceAll(result, entries[1][1], entries[1][2]), Tail(entries))

\* The TypeError of `result.replace(...)` when result is not a string.
ReplaceTypeError(v) ==
    IF v.kind = "undefined"
    THEN ErrorValue(<<"Cannot read properties of undefined (reading 'replace')">>)
    ELSE ErrorValue(<<"result.replace is not a function">>)

\* The handler of formatDateTime, where Date.now() is env.now and the time zone
\* of the process is env.tz minutes east of UTC.
formatDateTime(args, env) ==
    LET timestamp == IF Falsy(args.timestamp) THEN env.now ELSE args.timestamp
        time == TimeValue(timestamp)
    IN  IF time = NaN
        THEN createTextResponse(<<"[invalid timestamp]: ">> \o TemplateString(timestamp), TRUE)
        ELSE IF ~IsString(args.format)
        THEN \* thrown inside the try block, caught by the handler
             createTextResponse(
                 <<"[date format error]: ">> \o ErrorText(ReplaceTypeError(args.format)).value,
                 TRUE)
        ELSE createTextResponse(
                 ReplaceTokens(args.format.value, FormatMap(LocalFields(time, env.tz))), FALSE)

\* What Date.now() and the time zone of the process can be.
Environments ==
    {[now |-> Millis(1704412800, 0), tz |-> 0],
     [now |-> Millis(1709251199, 999), tz |-> 480],
     [now |-> Millis(1709251199, 999), tz |-> -300]}

\* The synchronous part of calling handler h: a handler that is not an async
\* function can throw before it returns its promise.
HandlerSync(h, args) ==
    IF h = "hThrowSync" THEN Threw(ErrorValue(<<"b", "o", "o", "m">>)) ELSE Completed(NoValue)

\* The ways the promise returned by handler h can settle (none: it never does).
HandlerSettlements(h, args) ==
    CASE h = "hOk" -> {Fulfilled(createTextResponse(<<"o", "k", ":">> \o args, FALSE))}
      [] h = "hErrResult" -> {Fulfilled(createTextResponse(<<"b", "a", "d">>, TRUE))}
      [] h = "hReject" -> {Rejected(ErrorValue(<<"f", "a", "i", "l">>))}
      [] h = "hRejectOrHang" ->
            IF args = <<>> THEN {Rejected(ErrorValue(<<"f", "a", "i", "l">>))} ELSE {}
      [] h = "hRejectStr" -> {Rejected(StringValue(<<"o", "o", "p", "s">>))}
      [] h = "hThrowNum" -> {Rejected(NumberValue(42))}
      [] h = "hThrowObj" -> {Rejected(NullProtoObject)}
      [] h = "fetchMetaTags" -> {Fulfilled(fetchMetaTags(args, o)) : o \in FetchOutcomes}
      [] h = "readpoPoster" -> {readpoPoster(args)}
      [] h = "formatDateTime" -> {Fulfilled(formatDateTime(args, env)) : env \in Environments}
      [] h = "textStats" -> {Fulfilled(textStats(args))}
      [] OTHER -> {}

\* ------------------------------------------------------------ ToolRegistry
Tool(name, description, inputSchema) ==
    [name |-> name, description |-> description, inputSchema |-> inputSchema]
ToolHandler(tool, handler) == [tool |-> tool, handler |-> handler]

\* Mutant of register: the entries are pushed on a list, so a name can repeat.
registerPush(reg, toolHandler) == Append(reg, <<toolHandler.tool.name, toolHandler>>)

\* Mutant of register: a name that is already registered keeps its entry.
registerKeepFirst(reg, toolHandler) ==
    IF MapHas(reg, toolHandler.tool.name) THEN reg
    ELSE MapSet(reg, toolHandler.tool.name, toolHandler)

\* Mutant of register: a name registered again moves to the end of the order.
registerMoveToEnd(reg, toolHandler) ==
    Append(MapDelete(reg, toolHandler.tool.name), <<toolHandler.tool.name, toolHandler>>)

\* register(toolHandler): this.tools.set(toolHandler.tool.name, toolHandler)
register(reg, toolHandler) == MapSet(reg, toolHandler.tool.name, toolHandler)

RECURSIVE registerAllReversed(_, _)
registerAllReversed(reg, toolHandlers) ==
    IF toolHandlers = <<>> THEN reg
    ELSE register(registerAllReversed(reg, Tail(toolHandlers)), Head(toolHandlers))
RECURSIVE registerAll(_, _)
\* registerAll(toolHandlers): for (const handler of toolHandlers) this.register(handler)
registerAll(reg, toolHandlers) ==
    IF toolHandlers = <<>> THEN reg
    ELSE registerAll(register(reg, Head(toolHandlers)), Tail(toolHandlers))

\* getTools(): Array.from(this.tools.values()).map(th => th.tool)
getTools(reg) == [i \in 1..Len(reg) |-> MapValues(reg)[i].tool]

\* A call of handleToolCall, as its caller observes it.
Call(name, args, handler, state, value, failure) ==
    [name |-> name, args |-> args, handler |-> handler, state |-> state,
     value |-> value, failure |-> failure]

\* Mutant of UnknownToolResult: the message does not name the tool.
UnknownToolResultNoName(name) == createTextResponse(UnknownToolPrefix, TRUE)

\* return createTextResponse(`<unknown tool>: ${name}`, true)
UnknownToolResult(name) == createTextResponse(UnknownToolPrefix \o name, TRUE)

\* The catch block of handleToolCall.  Evaluating the template can itself
\* throw (String(error)); the async function's promise is then rejected.
CatchBlock(c, error) ==
    LET t == ErrorText(error)
    IN  IF t.threw
        THEN [c EXCEPT !.state = "rejected", !.value = t.value, !.failure = error]
        ELSE [c EXCEPT !.state = "resolved",
                       !.value = createTextResponse(ToolErrorPrefix \o t.value, TRUE),
                       !.failure = error]

\* handleToolCall(name, args) up to its first suspension: the lookup, the
\* unknown-tool return, the synchronous part of the handler inside `try`.
handleToolCall(reg, name, args) ==
    IF ~MapHas(reg, name)
    THEN Call(name, args, NoHandler, "resolved", UnknownToolResult(name), NoValue)
    ELSE LET toolHandler == MapGet(reg, name)
             c == Call(name, args, toolHandler.handler, "pending", NoValue, NoValue)
             r == HandlerSync(toolHandler.handler, args)
         IN  IF r.threw THEN CatchBlock(c, r.value) ELSE c

\* Mutant of AwaitHandler: the handler's text is wrapped in a new result.
AwaitHandlerRewrap(c, p) ==
    IF p.fate = "fulfilled"
    THEN [c EXCEPT !.state = "resolved",
                   !.value = createTextResponse(p.value.content[1].text, FALSE)]
    ELSE CatchBlock(c, p.value)

\* `return await promise` inside try/catch, when the handler's promise settles as p.
AwaitHandler(c, p) ==
    IF p.fate = "fulfilled"
    THEN [c EXCEPT !.state = "resolved", !.value = p.value]
    ELSE CatchBlock(c, p.value)

\* toolHandler.handler(args): the handler call c made and the arguments it got
\* (none when the name was not found).
Invoked(c) ==
    IF c.handler = NoHandler THEN <<>>
    ELSE <<[handler |-> c.handler, args |-> c.args]>>

\* ------------------------------------------------------------------ state
VARIABLES
    tools,            \* ToolRegistry.tools: Map<string, ToolHandler>
    lastReg,          \* history: name -> the ToolHandler last passed to register
    nOps,             \* history: number of operations so far
    calls,            \* the handleToolCall invocations, in the order they began
    callReg,          \* history: lastReg[name] when each call began
    listed,           \* what the last getTools() returned
    regOrder,         \* history: the names registered, in the order first registered
    sinceList,        \* history: what happened since the last getTools():
                      \* "nothing", "calls" (only handleToolCall activity), "register",
                      \* or "listedAgain": nothing since a getTools() that itself
                      \* followed only handleToolCall activity after the one before
    batchRepeats,     \* history: the last registerAll got an array repeating a name
    alive,            \* the server process is running
    transports,       \* the SSEServerTransport objects, in the order created
    activeTransports, \* main(): Map connectionId -> transport
    serverTransport,  \* Server._transport: the transport the server sends on
    oncloseId,        \* the connectionId captured by the current server.onclose
    requests,         \* the JSON-RPC requests POSTed, in the order received
    sdkCaptures,      \* the SDK build sends a response on the transport that was
                      \* current when the request arrived (else: when it completes)
    transport,        \* main(): `let transport`, the transport of the latest GET /sse
    input,            \* the tool call a run of SpecTools makes: name and arguments
    fetches,          \* history: the outbound requests issued (fetch), in order
    invocations       \* history: the handlers invoked and the arguments each got, in order

registryVars ==
    <<tools, lastReg, nOps, calls, callReg, listed, regOrder, sinceList, batchRepeats>>
serverVars ==
    <<alive, transports, activeTransports, serverTransport, oncloseId, requests, sdkCaptures,
      transport>>
toolVars == <<input, fetches, invocations>>
vars == <<registryVars, serverVars, toolVars>>

\* ---------------------------------------------- TOOLS of part_000
NameFetchMetaTags ==
    <<"f", "e", "t", "c", "h", "M", "e", "t", "a", "T", "a", "g", "s">>
NameReadpoPoster == <<"r", "e", "a", "d", "p", "o", "P", "o", "s", "t", "e", "r">>
BuiltinNames == {NameFetchMetaTags, NameReadpoPoster}

\* const TOOLS: ToolHandler[]
TOOLS ==
    <<ToolHandler(Tool(NameFetchMetaTags, "fetchMetaTags", "object"), "fetchMetaTags"),
      ToolHandler(Tool(NameReadpoPoster, "readpoPoster", "object"), "readpoPoster")>>

\* ------------------------------------------------- the registry, directly
NameA == <<"a">>
NameB == <<"b">>
NameEmpty == <<>>
NameNonexistent == <<"z", "z">>

\* The ToolHandler values register is called with.
RegPool ==
    {ToolHandler(Tool(NameA, "d1", "object"), "hOk"),
     ToolHandler(Tool(NameA, "d2", "object"), "hThrowSync"),
     ToolHandler(Tool(NameA, "d1", "object"), "hThrowObj"),
     ToolHandler(Tool(NameB, "d1", "object"), "hOk"),
     ToolHandler(Tool(NameB, "d2", "object"), "hReject"),
     ToolHandler(Tool(NameB, "d1", "malformed"), "hRejectStr"),
     ToolHandler(Tool(NameEmpty, "d1", "object"), "hErrResult"),
     ToolHandler(Tool(NameEmpty, "d2", "object"), "hThrowNum"),
     ToolHandler(Tool(NameEmpty, "d1", "object"), "hHang")}

\* The ToolHandler values the arrays passed to registerAll are made of.
BatchPool ==
    {ToolHandler(Tool(NameA, "d1", "object"), "hOk"),
     ToolHandler(Tool(NameA, "d2", "object"), "hThrowSync"),
     ToolHandler(Tool(NameB, "d2", "object"), "hRejectOrHang")}

CallNames == {NameA, NameB, NameEmpty, NameNonexistent}

RECURSIVE SeqsUpTo(_, _)
\* The sequences over S of length at most n.
SeqsUpTo(S, n) ==
    IF n = 0 THEN {<<>>}
    ELSE LET shorter == SeqsUpTo(S, n - 1)
         IN  shorter \cup {Append(q, x) : q \in shorter, x \in S}

NoTransport == 0       \* undefined, as the value of Server._transport
NoConnectionId == 0    \* no server.onclose has been set yet

ServerIdle ==
    /\ alive = FALSE
    /\ transports = <<>>
    /\ activeTransports = <<>>
    /\ serverTransport = NoTransport
    /\ oncloseId = NoConnectionId
    /\ requests = <<>>
    /\ sdkCaptures = FALSE
    /\ transport = NoTransport

ToolsIdle ==
    /\ input = NoValue
    /\ fetches = <<>>
    /\ invocations = <<>>

RECURSIVE LastRegistered(_, _)
\* The history after register has been called on each element of toolHandlers.
LastRegistered(last, toolHandlers) ==
    IF toolHandlers = <<>> THEN last
    ELSE LastRegistered([last EXCEPT ![Head(toolHandlers).tool.name] = Head(toolHandlers)],
                        Tail(toolHandlers))

RECURSIVE FirstRegistered(_, _)
\* The history of names after register has been called on each element of toolHandlers.
FirstRegistered(order, toolHandlers) ==
    IF toolHandlers = <<>> THEN order
    ELSE LET name == Head(toolHandlers).tool.name
         IN  FirstRegistered(IF \E i \in 1..Len(order) : order[i] = name
                             THEN order ELSE Append(order, name),
                             Tail(toolHandlers))

\* Two elements of toolHandlers have the same name.
RepeatsName(toolHandlers) ==
    \E i, j \in 1..Len(toolHandlers) :
        i < j /\ toolHandlers[i].tool.name = toolHandlers[j].tool.name

RECURSIVE RegisterEach(_, _, _)
\* The registry after register has been called on toolHandlers[1], ...,
\* toolHandlers[n], in that order.
RegisterEach(reg, toolHandlers, n) ==
    IF n = 0 THEN reg
    ELSE register(RegisterEach(reg, toolHandlers, n - 1), toolHandlers[n])

\* The arrays registerAll is called with.
Batches == SeqsUpTo(BatchPool, MaxBatch)

\* new ToolRegistry()
Init ==
    /\ tools = <<>>
    /\ lastReg = [n \in CallNames \cup BuiltinNames |-> NoValue]
    /\ nOps = 0
    /\ calls = <<>>
    /\ callReg = <<>>
    /\ listed = <<>>
    /\ regOrder = <<>>
    /\ sinceList = "nothing"
    /\ batchRepeats = FALSE
    /\ ServerIdle
    /\ ToolsIdle

Register(toolHandler) ==
    /\ nOps < MaxOps
    /\ tools' = register(tools, toolHandler)
    /\ lastReg' = LastRegistered(lastReg, <<toolHandler>>)
    /\ regOrder' = FirstRegistered(regOrder, <<toolHandler>>)
    /\ sinceList' = "register"
    /\ nOps' = nOps + 1
    /\ UNCHANGED <<calls, callReg, listed, batchRepeats, serverVars, toolVars>>

RegisterAll(toolHandlers) ==
    /\ nOps < MaxOps
    /\ tools' = registerAll(tools, toolHandlers)
    /\ lastReg' = LastRegistered(lastReg, toolHandlers)
    /\ regOrder' = FirstRegistered(regOrder, toolHandlers)
    /\ sinceList' = "register"
    /\ batchRepeats' = RepeatsName(toolHandlers)
    /\ nOps' = nOps + 1
    /\ UNCHANGED <<calls, callReg, listed, serverVars, toolVars>>

GetToolsDraining ==
    /\ listed' = getTools(tools)
    /\ tools' = <<>>
    /\ sinceList' = IF sinceList \in {"calls", "listedAgain"} THEN "listedAgain" ELSE "nothing"
    /\ UNCHANGED <<lastReg, nOps, calls, callReg, regOrder, batchRepeats, serverVars, toolVars>>
GetTools ==
    /\ listed' = getTools(tools)
    /\ sinceList' = IF sinceList \in {"calls", "listedAgain"} THEN "listedAgain" ELSE "nothing"
    /\ UNCHANGED <<tools, lastReg, nOps, calls, callReg, regOrder, batchRepeats, serverVars, toolVars>>

\* handleToolCall(name, args) begins: everything up to the await.
HandleToolCall(name, args) ==
    /\ nOps < MaxOps
    /\ calls' = Append(calls, handleToolCall(tools, name, args))
    /\ invocations' = invocations \o Invoked(handleToolCall(tools, name, args))
    /\ callReg' = Append(callReg, lastReg[name])
    /\ nOps' = nOps + 1
    /\ sinceList' = IF sinceList = "register" THEN "register" ELSE "calls"
    /\ UNCHANGED <<tools, lastReg, listed, regOrder, batchRepeats, serverVars, input, fetches>>

\* Mutant of HandlerSettles: a tool whose handler failed is dropped from the registry.
HandlerSettlesEvicting(i) ==
    /\ i \in 1..Len(calls)
    /\ calls[i].state = "pending"
    /\ \E p \in HandlerSettlements(calls[i].handler, calls[i].args) :
           /\ calls' = [calls EXCEPT ![i] = AwaitHandler(calls[i], p)]
           /\ tools' = IF p.fate = "rejected" THEN MapDelete(tools, calls[i].name) ELSE tools
    /\ sinceList' = IF sinceList = "register" THEN "register" ELSE "calls"
    /\ UNCHANGED <<lastReg, nOps, callReg, listed, regOrder, batchRepeats, serverVars, toolVars>>

\* The promise of the handler of call i settles and handleToolCall resumes.
HandlerSettlesSerial(i) ==
    /\ i \in 1..Len(calls)
    /\ \A j \in 1..(i - 1) : calls[j].state # "pending"
    /\ calls[i].state = "pending"
    /\ \E p \in HandlerSettlements(calls[i].handler, calls[i].args) :
           calls' = [calls EXCEPT ![i] = AwaitHandler(calls[i], p)]
    /\ sinceList' = IF sinceList = "register" THEN "register" ELSE "calls"
    /\ UNCHANGED <<tools, lastReg, nOps, callReg, listed, regOrder, batchRepeats, serverVars, toolVars>>
HandlerSettles(i) ==
    /\ i \in 1..Len(calls)
    /\ calls[i].state = "pending"
    /\ \E p \in HandlerSettlements(calls[i].handler, calls[i].args) :
           calls' = [calls EXCEPT ![i] = AwaitHandler(calls[i], p)]
    /\ sinceList' = IF sinceList = "register" THEN "register" ELSE "calls"
    /\ UNCHANGED <<tools, lastReg, nOps, callReg, listed, regOrder, batchRepeats, serverVars, toolVars>>

Next ==
    \/ \E th \in RegPool : Register(th)
    \/ \E ths \in Batches : RegisterAll(ths)
    \/ GetTools
    \/ \E name \in CallNames, args \in Args : HandleToolCall(name, args)
    \/ \E i \in 1..Len(calls) : HandlerSettles(i)

Spec == Init /\ [][Next]_vars

\* Spec with the event loop's guarantee: the continuation of a call whose
\* handler's promise has settled (or can settle) is eventually run.
FairSpec == Spec /\ \A i \in 1..MaxOps : WF_vars(HandlerSettles(i))

\* ------------------------------------------------- main() of part_000
Uuids == 1..NumUuids

\* Mutant of uuidv4: an identifier in use can be drawn again.
uuidv4Any(issued) == Uuids

\* uuidv4(): an identifier that was not drawn before.
uuidv4(issued) == Uuids \ issued

IssuedIds == {transports[t].connectionId : t \in 1..Len(transports)}

\* new SSEServerTransport(`/message/${connectionId}`, res), once started
SSEServerTransport(connectionId) ==
    [connectionId |-> connectionId, sseOpen |-> TRUE, channel |-> <<>>]

ServerMethods == {"tools/list", "tools/call"}
ServerNames == BuiltinNames \cup {NameNonexistent}
\* request.params.arguments: absent, or an object.
ServerArgs ==
    {Undefined,
     Bag(StringValue(<<"h", "t", "t", "p", ":", "/", "/", "x">>), Undefined,
         StringValue(<<"h", "i", " ", "#">>))}

\* const { server, cleanup } = createServer(); the SDK build is either one.
InitServer ==
    /\ tools = registerAll(<<>>, TOOLS)
    /\ lastReg = LastRegistered([n \in CallNames \cup BuiltinNames |-> NoValue], TOOLS)
    /\ nOps = 0
    /\ calls = <<>>
    /\ callReg = <<>>
    /\ listed = <<>>
    /\ regOrder = FirstRegistered(<<>>, TOOLS)
    /\ sinceList = "nothing"
    /\ batchRepeats = FALSE
    /\ alive = TRUE
    /\ transports = <<>>
    /\ activeTransports = <<>>
    /\ serverTransport = NoTransport
    /\ oncloseId = NoConnectionId
    /\ requests = <<>>
    /\ sdkCaptures \in BOOLEAN
    /\ transport = NoTransport
    /\ ToolsIdle

\* app.get("/sse"): a new streaming connection.  server.connect(transport) makes
\* the new transport the server's current one (the one Server of createServer is
\* connected to every transport) and starts it without waiting for I/O; the
\* handler then enters the transport in activeTransports and replaces
\* server.onclose.  No other request is handled in between.
SseConnect ==
    /\ alive
    /\ nOps < MaxServerOps
    /\ \E connectionId \in uuidv4(IssuedIds) :
          /\ transports' = Append(transports, SSEServerTransport(connectionId))
          /\ transport' = Len(transports) + 1
          /\ serverTransport' = Len(transports) + 1
          /\ activeTransports' = MapSet(activeTransports, connectionId, Len(transports) + 1)
          /\ oncloseId' = connectionId
    /\ nOps' = nOps + 1
    /\ UNCHANGED <<tools, lastReg, calls, callReg, listed, regOrder, sinceList, batchRepeats,
                   alive, requests, sdkCaptures, toolVars>>

\* transport.send(message) on transport t of ts: written to the stream when it is
\* open; with no transport, or a closed one, nothing is written.
Send(ts, t, message) ==
    IF t # NoTransport /\ ts[t].sseOpen
    THEN [ts EXCEPT ![t].channel = Append(@, message)]
    ELSE ts

\* The transport the response of request r is sent on.
ResponseTransport(r) == IF sdkCaptures THEN r.captured ELSE serverTransport

Response(r, i) == [request |-> i, session |-> r.session, payload |-> r.call]

\* a ?? b
NullishCoalesce(a, b) == IF a = Undefined THEN b ELSE a

\* toolRegistry.handleToolCall(name, args) as the request handler awaits it.  A
\* handler that does not wait for I/O has completed before the event loop
\* takes the next event.
CallToolRequest(name, args) ==
    LET c == handleToolCall(tools, name, args)
    IN  IF c.state = "pending" /\ ~AwaitsIO(c.handler, c.args)
        THEN AwaitHandler(c, CHOOSE p \in HandlerSettlements(c.handler, c.args) : TRUE)
        ELSE c

\* Mutant of Dispatch: the arguments of the request are not forwarded.
DispatchNoArguments(method, name, arguments) ==
    IF method = "tools/list"
    THEN Call(<<>>, EmptyBag, NoHandler, "resolved", getTools(tools), NoValue)
    ELSE CallToolRequest(name, EmptyBag)

\* The request handlers set in createServer, reached through the onmessage of the
\* transport the message was posted to.
\*   ListToolsRequestSchema: { tools: toolRegistry.getTools() }
\*   CallToolRequestSchema: toolRegistry.handleToolCall(name, arguments ?? {})
Dispatch(method, name, arguments) ==
    IF method = "tools/list"
    THEN Call(<<>>, EmptyBag, NoHandler, "resolved", getTools(tools), NoValue)
    ELSE CallToolRequest(name, NullishCoalesce(arguments, EmptyBag))

\* request.params of a tools/call request.
Params(method, name, arguments) ==
    IF method = "tools/list" THEN NoValue
    ELSE [name |-> name, arguments |-> arguments]

\* Mutant of ConnectionNotFound: the message is handled without the lookup and
\* answered on the server's current transport.
ConnectionNotChecked(connectionId, method, name, arguments) ==
    LET r == [session |-> connectionId, transport |-> NoTransport, method |-> method,
              params |-> Params(method, name, arguments),
              status |-> 202, body |-> "Accepted", captured |-> serverTransport,
              call |-> Dispatch(method, name, arguments)]
    IN  /\ requests' = Append(requests, r)
        /\ transports' =
             IF r.call.state = "pending" THEN transports
             ELSE Send(transports, ResponseTransport(r), Response(r, Len(requests) + 1))
        /\ fetches' = IF r.call.state = "pending"
                      THEN Append(fetches, OutboundRequest(r.call.args))
                      ELSE fetches
        /\ invocations' = invocations \o Invoked(r.call)
        /\ alive' = alive

\* if (!transport) return res.status(404).send("Connection not found")
ConnectionNotFound(connectionId, method, name, arguments) ==
    /\ requests' = Append(requests,
           [session |-> connectionId, transport |-> NoTransport, method |-> method,
            params |-> NoValue, status |-> 404, body |-> "Connection not found",
            captured |-> NoTransport, call |-> NoValue])
    /\ UNCHANGED <<transports, fetches, invocations, alive>>

\* await transport.handlePostMessage(req, res) returns: the transport has
\* answered 202 and handed the message to the server.
HandlePostMessage(connectionId, method, name, arguments) ==
    LET r == [session |-> connectionId,
              transport |-> MapGet(activeTransports, connectionId), method |-> method,
              params |-> Params(method, name, arguments),
              status |-> 202, body |-> "Accepted", captured |-> serverTransport,
              call |-> Dispatch(method, name, arguments)]
    IN  /\ requests' = Append(requests, r)
        /\ transports' =
             IF r.call.state = "pending" THEN transports
             ELSE Send(transports, ResponseTransport(r), Response(r, Len(requests) + 1))
        /\ fetches' = IF r.call.state = "pending"
                      THEN Append(fetches, OutboundRequest(r.call.args))
                      ELSE fetches
        /\ invocations' = invocations \o Invoked(r.call)
        /\ alive' = alive

\* Mutant of HandlePostMessageThrows: the exception is not caught and ends the
\* process.
HandlePostMessageUncaught(connectionId, method) ==
    /\ requests' = Append(requests,
           [session |-> connectionId, transport |-> MapGet(activeTransports, connectionId),
            method |-> method, params |-> NoValue, status |-> 500,
            body |-> "Internal server error", captured |-> NoTransport, call |-> NoValue])
    /\ alive' = FALSE
    /\ UNCHANGED <<transports, fetches, invocations>>

\* await transport.handlePostMessage(req, res) throws before the message is
\* handed to the server:
\*   catch (error) { console.error(...); res.status(500).send("Internal server error") }
HandlePostMessageThrows(connectionId, method) ==
    /\ requests' = Append(requests,
           [session |-> connectionId, transport |-> MapGet(activeTransports, connectionId),
            method |-> method, params |-> NoValue, status |-> 500,
            body |-> "Internal server error", captured |-> NoTransport, call |-> NoValue])
    /\ UNCHANGED <<transports, fetches, invocations, alive>>

\* app.post("/message/:connectionId")
PostMessage(connectionId, method, name, arguments) ==
    /\ alive
    /\ nOps < MaxServerOps
    /\ nOps' = nOps + 1
    /\ IF ~MapHas(activeTransports, connectionId)
       THEN ConnectionNotFound(connectionId, method, name, arguments)
       ELSE \/ HandlePostMessage(connectionId, method, name, arguments)
            \/ HandlePostMessageThrows(connectionId, method)
    /\ UNCHANGED <<tools, lastReg, calls, callReg, listed, regOrder, sinceList, batchRepeats,
                   activeTransports, serverTransport, oncloseId, sdkCaptures, transport,
                   input>>

RequestSettlesEvicting(i) ==
    /\ alive
    /\ requests[i].call # NoValue
    /\ requests[i].call.state = "pending"
    /\ \E p \in HandlerSettlements(requests[i].call.handler, requests[i].call.args) :
          LET r == [requests[i] EXCEPT !.call = AwaitHandler(requests[i].call, p)]
          IN  /\ requests' = [requests EXCEPT ![i] = r]
              /\ transports' = Send(transports, ResponseTransport(r), Response(r, i))
              /\ tools' = IF r.call.state = "resolved" /\ r.call.value.isError
                          THEN MapDelete(tools, r.call.name) ELSE tools
    /\ UNCHANGED <<lastReg, nOps, calls, callReg, listed, regOrder, sinceList, batchRepeats,
                   alive, activeTransports, serverTransport, oncloseId, sdkCaptures, transport,
                   toolVars>>
\* The outbound request of the handler of request i completes; handleToolCall
\* resumes and the server sends the response.
RequestSettles(i) ==
    /\ alive
    /\ requests[i].call # NoValue
    /\ requests[i].call.state = "pending"
    /\ \E p \in HandlerSettlements(requests[i].call.handler, requests[i].call.args) :
          LET r == [requests[i] EXCEPT !.call = AwaitHandler(requests[i].call, p)]
          IN  /\ requests' = [requests EXCEPT ![i] = r]
              /\ transports' = Send(transports, ResponseTransport(r), Response(r, i))
    /\ UNCHANGED <<registryVars, alive, activeTransports, serverTransport, oncloseId,
                   sdkCaptures, transport, toolVars>>

\* The stream of transport t closes (res.on("close")).  The transport calls its
\* onclose, which every connect set to the server's _onclose: the server drops its
\* current transport and calls server.onclose, the callback of the latest GET /sse:
\*   activeTransports.delete(connectionId); await cleanup(); await server.close();
\*   process.exit(0)
TransportClose(t) ==
    /\ alive
    /\ transports[t].sseOpen
    /\ transports' = [transports EXCEPT ![t].sseOpen = FALSE]
    /\ serverTransport' = NoTransport
    /\ activeTransports' = MapDelete(activeTransports, oncloseId)
    /\ alive' = FALSE
    /\ UNCHANGED <<registryVars, oncloseId, requests, sdkCaptures, transport, toolVars>>

NextServer ==
    \/ SseConnect
    \/ \E id \in Uuids, method \in ServerMethods, name \in ServerNames, args \in ServerArgs :
           PostMessage(id, method, name, args)
    \/ \E i \in 1..Len(requests) : RequestSettles(i)
    \/ \E t \in 1..Len(transports) : TransportClose(t)

SpecServer == InitServer /\ [][NextServer]_vars

\* ------------------------------------------- registerAll, on any registry
\* A registry, given by the entries registered one by one to build it, and the
\* array registerAll is then called with.
BatchInputs ==
    {[base |-> base, batch |-> batch] : base \in SeqsUpTo(RegPool, MaxBase), batch \in Batches}

InitRegisterAll ==
    /\ input \in BatchInputs
    /\ tools = RegisterEach(<<>>, input.base, Len(input.base))
    /\ lastReg = LastRegistered([n \in CallNames |-> NoValue], input.base)
    /\ nOps = 0
    /\ calls = <<>>
    /\ callReg = <<>>
    /\ listed = <<>>
    /\ regOrder = FirstRegistered(<<>>, input.base)
    /\ sinceList = "nothing"
    /\ batchRepeats = FALSE
    /\ fetches = <<>>
    /\ invocations = <<>>
    /\ ServerIdle

NextRegisterAll == nOps = 0 /\ RegisterAll(input.batch)

SpecRegisterAll == InitRegisterAll /\ [][NextRegisterAll]_vars

\* ------------------------------- the built-in tools of both files, one call
NameFormatDateTime ==
    <<"f", "o", "r", "m", "a", "t", "D", "a", "t", "e", "T", "i", "m", "e">>
NameTextStats == <<"t", "e", "x", "t", "S", "t", "a", "t", "s">>

\* const TOOLS: ToolHandler[] of src/main.ts
MainTOOLS ==
    <<ToolHandler(Tool(NameFormatDateTime, "formatDateTime", "object"), "formatDateTime"),
      ToolHandler(Tool(NameTextStats, "textStats", "object"), "textStats")>>

\* The texts drawn: every string of at most MaxTextLen characters of the
\* alphabet, and a few longer ones.
TextAlphabet == {"a", "b", " ", "\n", "\r"}
Texts ==
    SeqsUpTo(TextAlphabet, MaxTextLen)
    \cup {<<"a", " ", "a", " ", "b">>,
          <<"a", "\t", "b", "\r", "\n", "\r", "\n", "\"", "b">>,
          <<"h", "i", " ", "#">>,
          <<"a", LoneSurrogate>>}

\* Values of the wrong type for an argument that must be a string.
NotStrings == {Undefined, NumberValue(5)}

FormatValues ==
    NotStrings
    \cup {StringValue(<<>>),
          StringValue(<<"Y", "Y", "Y", "Y", "-", "M", "M", "-", "D", "D">>),
          StringValue(<<"H", "H", ":", "m", "m", ":", "s", "s">>),
          StringValue(<<"D", "D", "D", " ", "y", "M", "M", "M">>),
          StringValue(<<"m", "m", "m", "m", "D", "D">>)}

TimestampValues ==
    {Undefined, Millis(0, 0), Millis(1704412800, 0), Millis(1704456000, 0),
     Millis(951868799, 999), StringValue(<<"a", "b", "c">>)}

UrlValues ==
    NotStrings
    \cup {StringValue(<<>>),
          StringValue(<<"f", "t", "p", ":", "/", "/", "x">>),
          StringValue(<<"h", "t", "t", "p", ":", "/", "/">>),
          StringValue(<<"h", "t", "t", "p", ":", "/", "/", "\n">>),
          StringValue(<<" ", "h", "t", "t", "p", ":", "/", "/", "x">>),
          StringValue(<<"h", "t", "t", "p", ":", "/", "/", "x">>),
          StringValue(<<"H", "T", "T", "P", "S", ":", "/", "/", "x">>)}

\* The calls drawn: each built-in tool of each file with arguments of every
\* kind, and a name that is not registered.
ToolInputs ==
    {[program |-> "main.ts", name |-> NameTextStats,
      args |-> MainBag(Undefined, Undefined, text)] :
         text \in NotStrings \cup {StringValue(t) : t \in Texts}}
    \cup {[program |-> "main.ts", name |-> NameFormatDateTime,
           args |-> MainBag(format, timestamp, Undefined)] :
              format \in FormatValues, timestamp \in TimestampValues}
    \cup {[program |-> "main.ts", name |-> NameNonexistent,
           args |-> MainBag(Undefined, Undefined, Undefined)]}
    \cup {[program |-> "part_000", name |-> NameFetchMetaTags,
           args |-> Bag(url, Undefined, Undefined)] : url \in UrlValues}
    \cup {[program |-> "part_000", name |-> NameReadpoPoster,
           args |-> Bag(Undefined, Undefined, markdown)] :
              markdown \in NotStrings \cup {StringValue(t) : t \in Texts}}
    \cup {[program |-> "part_000", name |-> NameNonexistent, args |-> EmptyBag]}

\* createServer() of either file, and one tools/call request to come.
InitTools ==
    /\ input \in ToolInputs
    /\ tools = registerAll(<<>>, IF input.program = "main.ts" THEN MainTOOLS ELSE TOOLS)
    /\ lastReg = [n \in {} |-> NoValue]
    /\ nOps = 0
    /\ calls = <<>>
    /\ callReg = <<>>
    /\ listed = <<>>
    /\ regOrder = MapKeysInOrder(tools)
    /\ sinceList = "nothing"
    /\ batchRepeats = FALSE
    /\ fetches = <<>>
    /\ invocations = <<>>
    /\ ServerIdle

\* toolRegistry.handleToolCall(name, args) for the request, up to the point
\* where it has completed or waits for its outbound request.
ToolCall ==
    /\ calls = <<>>
    /\ LET c == handleToolCall(tools, input.name, input.args)
       IN  IF c.state = "pending" /\ ~AwaitsIO(c.handler, c.args)
           THEN /\ \E p \in HandlerSettlements(c.handler, c.args) :
                      calls' = <<AwaitHandler(c, p)>>
                /\ fetches' = fetches
           ELSE /\ calls' = <<c>>
                /\ fetches' = IF c.state = "pending"
                              THEN Append(fetches, OutboundRequest(c.args))
                              ELSE fetches
    /\ invocations' = invocations \o Invoked(handleToolCall(tools, input.name, input.args))
    /\ UNCHANGED <<tools, lastReg, nOps, callReg, listed, regOrder, sinceList, batchRepeats,
                   serverVars, input>>

\* The outbound request completes and handleToolCall resumes.
ToolCallSettles ==
    /\ calls # <<>>
    /\ calls[1].state = "pending"
    /\ \E p \in HandlerSettlements(calls[1].handler, calls[1].args) :
          calls' = <<AwaitHandler(calls[1], p)>>
    /\ UNCHANGED <<tools, lastReg, nOps, callReg, listed, regOrder, sinceList, batchRepeats,
                   serverVars, toolVars>>

NextTools ==
    \/ ToolCall
    \/ ToolCallSettles

SpecTools == InitTools /\ [][NextTools]_vars

\* ======================================================== claims, under Spec
Text(result) == result.content[1].text
Settled(c) == c.state # "pending"

\* C1: a call of handleToolCall for a name with no entry in the registry, with
\* any argument bag, does not throw: it resolves to a result with isError = true
\* whose single text block contains the requested name; no handler is invoked and
\* the registry is unchanged.
C1_UnknownToolIsErrorResult ==
    [][(Len(calls') = Len(calls) + 1 /\ ~MapHas(tools, calls'[Len(calls')].name))
         => LET c == calls'[Len(calls')]
            IN  /\ c.state = "resolved"
                /\ c.value.isError = TRUE
                /\ Len(c.value.content) = 1
                /\ Contains(Text(c.value), c.name)
                /\ c.handler = NoHandler
                /\ tools' = tools]_vars

\* C1 witness: a call with a non-empty argument bag for a name that is not
\* registered, made while another tool is registered.
C1_Witness ==
    \E i \in 1..Len(calls) :
        /\ calls[i].handler = NoHandler
        /\ calls[i].name = NameNonexistent
        /\ calls[i].args = <<"x">>
        /\ calls[i].state = "resolved"
        /\ tools # <<>>

\* The message of a failure: error.message for an Error, String(error) otherwise.
FailureMessage(e) == IF InstanceOfError(e) THEN Completed(e.message) ELSE JsString(e)

\* C2: when the handler registered under a name throws synchronously or its
\* promise rejects, handleToolCall does not throw or reject: it resolves to a
\* result with isError = true whose text contains the failure's message.
C2_HandlerFailureIsErrorResult ==
    \A i \in 1..Len(calls) :
        calls[i].failure # NoValue
            => /\ calls[i].state = "resolved"
               /\ calls[i].value.isError = TRUE
               /\ ~FailureMessage(calls[i].failure).threw
               /\ Contains(Text(calls[i].value), FailureMessage(calls[i].failure).value)

\* The outcomes a call for name with args has when it is the only call made on a
\* registry whose entry for name is toolHandler (NoValue: no entry).
IsolatedOutcomes(toolHandler, name, args) ==
    IF toolHandler = NoValue
    THEN {handleToolCall(<<>>, name, args)}
    ELSE LET c == handleToolCall(<<<<name, toolHandler>>>>, name, args)
         IN  IF Settled(c) THEN {c}
             ELSE {AwaitHandler(c, p) : p \in HandlerSettlements(c.handler, c.args)}

\* C3: isolation.  Calls never change the registry (it holds exactly the entry
\* last registered for each name), and the outcome of every call is the one it
\* has alone on the registry as it was when the call began, whatever other calls
\* failed before it or are in flight with it; a call of a tool whose handler
\* succeeds therefore returns that handler's result.
C3_Isolation ==
    /\ \A n \in DOMAIN lastReg :
          /\ MapHas(tools, n) <=> lastReg[n] # NoValue
          /\ MapHas(tools, n) => MapGet(tools, n) = lastReg[n]
    /\ \A i \in 1..Len(calls) :
          /\ Settled(calls[i]) => calls[i] \in IsolatedOutcomes(callReg[i], calls[i].name, calls[i].args)
          /\ (Settled(calls[i]) /\ calls[i].handler = "hOk")
                => /\ calls[i].state = "resolved"
                   /\ calls[i].value = createTextResponse(<<"o", "k", ":">> \o calls[i].args, FALSE)

\* C3 witness: a call whose handler failed and, begun after it, a call of a
\* different registered tool that returned its handler's result.
C3_Witness ==
    \E i, j \in 1..Len(calls) :
        /\ i < j
        /\ calls[i].failure # NoValue
        /\ Settled(calls[i])
        /\ calls[j].handler = "hOk"
        /\ calls[j].name # calls[i].name
        /\ calls[j].state = "resolved"
        /\ calls[j].value.isError = FALSE

\* C9: getTools() holds exactly one descriptor for each name that was ever
\* registered and none for another name; the number of descriptors is the number
\* of names registered, so re-registering a name leaves it unchanged; and the
\* descriptor listed for a name is the one registered last.
C9_OneDescriptorPerName ==
    LET listing == getTools(tools)
        registered == {n \in DOMAIN lastReg : lastReg[n] # NoValue}
    IN  /\ \A n \in registered :
               Cardinality({i \in 1..Len(listing) : listing[i].name = n}) = 1
        /\ \A i \in 1..Len(listing) :
               /\ listing[i].name \in registered
               /\ listing[i] = lastReg[listing[i].name].tool
        /\ Len(listing) = Cardinality(registered)

\* C9 witness: getTools() returned one descriptor for name a, then a was
\* registered again with another descriptor, and b was registered too.
C9_Witness ==
    /\ listed = <<Tool(NameA, "d1", "object")>>
    /\ tools # <<>>
    /\ tools[1][2].tool = Tool(NameA, "d2", "object")
    /\ Len(tools) = 2

\* C10: registering a name again is accepted and replaces the whole entry: the
\* registry holds the ToolHandler registered last, and a call for the name
\* invokes the handler that was registered last when the call began.
C10_LastRegistrationWins ==
    /\ \A th \in RegPool :
          (nOps < MaxOps /\ MapHas(tools, th.tool.name)) => ENABLED Register(th)
    /\ \A n \in DOMAIN lastReg : lastReg[n] # NoValue => MapGet(tools, n) = lastReg[n]
    /\ \A i \in 1..Len(calls) :
          callReg[i] # NoValue => calls[i].handler = callReg[i].handler

\* C10 witness: name a was listed with its first descriptor, registered again
\* with another handler, and a call for a invoked that handler.
C10_Witness ==
    /\ listed = <<Tool(NameA, "d1", "object")>>
    /\ \E i \in 1..Len(calls) :
          /\ calls[i].name = NameA
          /\ calls[i].handler = "hThrowSync"
          /\ callReg[i].tool = Tool(NameA, "d2", "object")

\* C11: getTools() returns exactly the currently registered descriptors, one
\* per registered name, in the order in which the names were registered (a name
\* registered again keeps its place and shows its latest descriptor), after
\* every sequence of register and registerAll operations.
C11_GetToolsInRegistrationOrder ==
    /\ Len(getTools(tools)) = Len(regOrder)
    /\ \A i \in 1..Len(regOrder) :
          /\ getTools(tools)[i].name = regOrder[i]
          /\ getTools(tools)[i] = lastReg[regOrder[i]].tool

\* C11 witness: getTools() returned the descriptors of b and a, in that
\* order, after three registration operations that registered b first and
\* among which a registerAll named a twice.
C11_Witness ==
    /\ nOps = 3
    /\ calls = <<>>
    /\ batchRepeats
    /\ regOrder = <<NameB, NameA>>
    /\ listed = <<Tool(NameB, "d2", "object"), Tool(NameA, "d2", "object")>>

\* C12: getTools() does not change the registry, and a getTools() that no
\* register or registerAll separates from the previous getTools() returns the
\* same descriptors in the same order, whatever calls started or completed in
\* between.
C12_GetToolsIsPure ==
    [][sinceList' # "register" =>
          /\ tools' = tools
          /\ sinceList # "register" => listed' = listed]_vars

\* C12 witness: getTools() has returned two descriptors for the second time
\* in a row, with a call that failed and a call still pending started between
\* the two.
C12_Witness ==
    /\ sinceList = "listedAgain"
    /\ Len(listed) = 2
    /\ \E i, j \in 1..Len(calls) :
          /\ Settled(calls[i]) /\ calls[i].failure # NoValue
          /\ calls[j].state = "pending"

\* C13: registerAll(entries), on any registry, leaves the registry as calling
\* register on each entry in order leaves it, and of the entries with one name
\* the last is the one the registry holds.
C13_RegisterAllIsRegisterEach ==
    nOps = 1 =>
       /\ tools = RegisterEach(RegisterEach(<<>>, input.base, Len(input.base)),
                               input.batch, Len(input.batch))
       /\ \A i \in 1..Len(input.batch) :
             (\A j \in (i + 1)..Len(input.batch) :
                  input.batch[j].tool.name # input.batch[i].tool.name)
             => MapGet(tools, input.batch[i].tool.name) = input.batch[i]

\* C13 witness: registerAll was called, on a registry holding b and a, with an
\* array naming a twice, and a is registered with the later of the two entries,
\* in the place it had.
C13_Witness ==
    /\ nOps = 1
    /\ [i \in 1..Len(input.base) |-> input.base[i].tool.name] = <<NameB, NameA>>
    /\ input.batch = <<ToolHandler(Tool(NameA, "d1", "object"), "hOk"),
                       ToolHandler(Tool(NameA, "d2", "object"), "hThrowSync")>>
    /\ MapKeysInOrder(tools) = <<NameB, NameA>>
    /\ MapGet(tools, NameA) = ToolHandler(Tool(NameA, "d2", "object"), "hThrowSync")

\* The i-th call is pending and its handler returns or fails.
CanSettle(i) ==
    IF i <= Len(calls)
    THEN calls[i].state = "pending"
         /\ HandlerSettlements(calls[i].handler, calls[i].args) # {}
    ELSE FALSE

\* The i-th call has completed.
HasResult(i) == IF i <= Len(calls) THEN Settled(calls[i]) ELSE FALSE

C18_EmptyNameRejected ==
    /\ ~MapHas(tools, NameEmpty)
    /\ \A toolHandler \in RegPool :
          toolHandler.tool.name # NameEmpty /\ ENABLED Register(toolHandler)
          => register(tools, toolHandler) = MapSet(tools, toolHandler.tool.name, toolHandler)

\* ================================================== claims, under SpecServer
ConnectionIdOf(t) == transports[t].connectionId
OpenTransports == {t \in 1..Len(transports) : transports[t].sseOpen}

\* C4: no event the server handles (an unknown tool, a handler failure, a
\* connection opening or closing) terminates the server process.
C4_ProcessNeverTerminates == alive

\* C5: every response written to the channel of a session answers a request
\* that arrived tagged with that session's identifier.
C5_ResultOnOwnChannel ==
    \A t \in 1..Len(transports) :
        \A k \in 1..Len(transports[t].channel) :
            transports[t].channel[k].session = ConnectionIdOf(t)

\* C6: once a connection has closed, its own entry is no longer in the
\* active-session mapping, whichever of the open connections closed.
C6_ClosedSessionRemoved ==
    \A t \in 1..Len(transports) :
        ~transports[t].sseOpen => ~MapHas(activeTransports, ConnectionIdOf(t))

\* C7: a call dispatched for a session that is still running when the session
\* closes is not cut off: its handler can still run to completion (its result
\* is then discarded).
C7_InFlightCallRunsToCompletion ==
    \A i \in 1..Len(requests) :
        (/\ requests[i].call # NoValue
         /\ requests[i].call.state = "pending"
         /\ ~transports[requests[i].transport].sseOpen)
            => ENABLED RequestSettles(i)

\* C8: the identifiers of the open sessions are pairwise different, and while
\* the server runs the active-session mapping maps the identifier of every open
\* connection to the transport of that same connection, and every identifier in
\* it to the transport that was given that identifier.
C8_FreshSessionIdentifier ==
    /\ \A t1, t2 \in OpenTransports : t1 # t2 => ConnectionIdOf(t1) # ConnectionIdOf(t2)
    /\ \A k \in 1..Len(activeTransports) :
          ConnectionIdOf(activeTransports[k][2]) = activeTransports[k][1]
    /\ alive =>
          \A t \in OpenTransports :
              /\ MapHas(activeTransports, ConnectionIdOf(t))
              /\ MapGet(activeTransports, ConnectionIdOf(t)) = t

\* C8 witness: a second connection has been opened while the first is open.
C8_Witness ==
    /\ alive
    /\ Cardinality(OpenTransports) >= 2
    /\ Len(activeTransports) >= 2

\* C15: the registry is filled by createServer, before any connection exists,
\* and no request, connection or closing changes it afterwards: it always holds
\* exactly the entries of TOOLS, every tools/list request of every session is
\* answered with the same descriptors, and every tools/call request finds the
\* handler registered under the name it asks for, or none if there is none.
C15_RegistryFixedAfterCreation ==
    /\ tools = registerAll(<<>>, TOOLS)
    /\ \A i \in 1..Len(requests) :
          requests[i].status = 202 =>
             IF requests[i].method = "tools/list"
             THEN requests[i].call.value = getTools(registerAll(<<>>, TOOLS))
             ELSE requests[i].call.handler =
                     IF MapHas(registerAll(<<>>, TOOLS), requests[i].call.name)
                     THEN MapGet(registerAll(<<>>, TOOLS), requests[i].call.name).handler
                     ELSE NoHandler

\* C15 witness: after a call of fetchMetaTags was answered with an error
\* result, a tools/list request was answered with both descriptors.
C15_Witness ==
    \E i, j \in 1..Len(requests) :
        /\ i < j
        /\ requests[i].status = 202 /\ requests[i].method = "tools/call"
        /\ requests[i].call.name = NameFetchMetaTags
        /\ requests[i].call.state = "resolved" /\ requests[i].call.value.isError
        /\ requests[j].status = 202 /\ requests[j].method = "tools/list"
        /\ Len(requests[j].call.value) = 2

\* C19: a session is in activeTransports exactly from its connect to its
\* close (an open session is in the map, under its own identifier and mapped to
\* its own transport; a closed one is not), and no identifier is given to two
\* sessions, so a closed session's identifier is never entered again.
C19_SessionLifecycle ==
    /\ \A t \in 1..Len(transports) :
          IF transports[t].sseOpen
          THEN MapHas(activeTransports, ConnectionIdOf(t))
               /\ MapGet(activeTransports, ConnectionIdOf(t)) = t
          ELSE ~MapHas(activeTransports, ConnectionIdOf(t))
    /\ \A t, u \in 1..Len(transports) : ConnectionIdOf(t) = ConnectionIdOf(u) => t = u

\* ==================================================== claims, under SpecTools
\* The argument the input schema of a built-in tool requires.
RequiredArgument(name, args) ==
    CASE name = NameFormatDateTime -> args.format
      [] name = NameTextStats -> args.text
      [] name = NameFetchMetaTags -> args.url
      [] name = NameReadpoPoster -> args.markdown

AllBuiltinNames == {NameFormatDateTime, NameTextStats, NameFetchMetaTags, NameReadpoPoster}

\* A result of the envelope shape: a content array holding exactly one text
\* block, and a boolean isError, and nothing else.
IsEnvelope(result) ==
    /\ DOMAIN result = {"content", "isError"}
    /\ result.isError \in BOOLEAN
    /\ Len(result.content) = 1
    /\ DOMAIN result.content[1] = {"type", "text"}
    /\ result.content[1].type = "text"

\* C14: every call that has completed (a built-in tool that succeeded, reported
\* an error about its arguments or its outbound request, or threw; a name that
\* is not registered) resolved to a result of the envelope shape; none was
\* rejected or resolved to nothing.
C14_AlwaysTheEnvelope ==
    \A i \in 1..Len(calls) :
        Settled(calls[i]) => calls[i].state = "resolved" /\ IsEnvelope(calls[i].value)

\* C14 witness: readpoPoster threw (its markdown cannot be encoded) and the
\* call completed with an error result.
C14_Witness ==
    /\ calls # <<>>
    /\ calls[1].name = NameReadpoPoster
    /\ calls[1].failure = URIError
    /\ calls[1].state = "resolved"
    /\ calls[1].value.isError

WordRuns(text) ==
    Cardinality({i \in 1..Len(text) :
                    /\ text[i] \notin WhiteSpace
                    /\ (i = 1 \/ text[i - 1] \in WhiteSpace)})

\* The number of line breaks of text: every LF, and every CR not followed by LF.
LineBreaks(text) ==
    Cardinality({i \in 1..Len(text) :
                    \/ text[i] = "\n"
                    \/ text[i] = "\r" /\ ~(i < Len(text) /\ text[i + 1] = "\n")})

\* C20: textStats on a string returns a non-error result whose character
\* count is the length of the string, whose word count is the number of maximal
\* runs of non-whitespace characters and whose line count is one more than the
\* number of line breaks, CRLF being one; for "a a b" they are 5, 3 and 1.
C20_TextStatsCounts ==
    \A i \in 1..Len(calls) :
        (calls[i].name = NameTextStats /\ IsString(calls[i].args.text))
        => LET text == calls[i].args.text.value
               counts(c, w, l) ==
                   TextStatsJson([charCount |-> c, wordCount |-> w, lineCount |-> l,
                                  topChars |-> TextStatsOf(text).topChars])
           IN  /\ calls[i].state = "resolved"
               /\ calls[i].value.isError = FALSE
               /\ Text(calls[i].value) =
                     counts(Len(text), WordRuns(text), 1 + LineBreaks(text))
               /\ text = <<"a", " ", "a", " ", "b">>
                  => Text(calls[i].value) = counts(5, 3, 1)

\* C20 witness: textStats has returned its result for a text of two lines
\* separated by CRLF.
C20_Witness ==
    /\ calls # <<>>
    /\ calls[1].name = NameTextStats
    /\ calls[1].args.text = StringValue(<<"a", "\r", "\n">>)
    /\ calls[1].state = "resolved"
    /\ Contains(Text(calls[1].value), JsonKey("[line count]") \o <<"2", ",">>)

RECURSIVE ZeroPadded(_, _)
\* The decimal digits of n, padded with zeros on the left to the given width.
ZeroPadded(n, width) ==
    IF width = 0 THEN <<>>
    ELSE ZeroPadded(n \div 10, width - 1) \o Digits(n % 10)

\* The six tokens, each with the zero-padded component it stands for.
TokenComponents(f) ==
    {<< <<"Y", "Y", "Y", "Y">>, ZeroPadded(f.year, 4)>>,
     << <<"M", "M">>, ZeroPadded(f.month, 2)>>,
     << <<"D", "D">>, ZeroPadded(f.day, 2)>>,
     << <<"H", "H">>, ZeroPadded(f.hours, 2)>>,
     << <<"m", "m">>, ZeroPadded(f.minutes, 2)>>,
     << <<"s", "s">>, ZeroPadded(f.seconds, 2)>>}

StartsWith(str, prefix) ==
    /\ Len(str) >= Len(prefix)
    /\ SubSeq(str, 1, Len(prefix)) = prefix

RECURSIVE FormatByScan(_, _)
\* One pass over the format: a token is replaced by its component, any other
\* character is copied.
FormatByScan(format, components) ==
    IF format = <<>> THEN <<>>
    ELSE IF \E tc \in components : StartsWith(format, tc[1])
    THEN LET tc == CHOOSE c \in components : StartsWith(format, c[1])
         IN  tc[2] \o FormatByScan(SubSeq(format, Len(tc[1]) + 1, Len(format)), components)
    ELSE <<Head(format)>> \o FormatByScan(Tail(format), components)

TimeZones == {env.tz : env \in Environments}

Clocks == {env.now : env \in Environments}

IsTimestamp(v) == v.kind = "millis"

FormatYearMonthDay == <<"Y", "Y", "Y", "Y", "-", "M", "M", "-", "D", "D">>

\* The local calendar date of the time t is 2024-01-05.
FallsOn20240105(t, tz) ==
    LET f == LocalFields(t, tz)
    IN  f.year = 2024 /\ f.month = 1 /\ f.day = 5

\* C21: formatDateTime, given a format string and a timestamp, returns a
\* non-error result whose text is the format with every token YYYY, MM, DD, HH,
\* mm, ss replaced by the zero-padded component of the given timestamp (in the
\* time zone of the process) and every other character unchanged; with
\* "YYYY-MM-DD" and a timestamp falling on 2024-01-05 the text is "2024-01-05".
C21_FormatDateTimeReplacesTokens ==
    \A i \in 1..Len(calls) :
        (/\ calls[i].name = NameFormatDateTime
         /\ Settled(calls[i])
         /\ IsString(calls[i].args.format)
         /\ IsTimestamp(calls[i].args.timestamp))
        => /\ calls[i].failure = NoValue
           /\ ~calls[i].value.isError
           /\ \E tz \in TimeZones :
                 Text(calls[i].value)
                     = FormatByScan(calls[i].args.format.value,
                                    TokenComponents(LocalFields(calls[i].args.timestamp, tz)))
           /\ (/\ calls[i].args.format.value = FormatYearMonthDay
               /\ \A tz \in TimeZones : FallsOn20240105(calls[i].args.timestamp, tz))
              => Text(calls[i].value) = <<"2", "0", "2", "4", "-", "0", "1", "-", "0", "5">>

\* C22: for every numeric timestamp that is supplied, 0 included, the result
\* of formatDateTime is computed from that timestamp and the format alone: it
\* is the result the handler gives whatever the clock shows.
C22_SuppliedTimestampIsUsed ==
    \A i \in 1..Len(calls) :
        (/\ calls[i].name = NameFormatDateTime
         /\ Settled(calls[i])
         /\ IsTimestamp(calls[i].args.timestamp))
        => \E tz \in TimeZones :
              \A now \in Clocks :
                  calls[i].value = formatDateTime(calls[i].args, [now |-> now, tz |-> tz])

\* A POST request arrives in this step.
Posted == Len(requests') = Len(requests) + 1

\* C23: a message POSTed to a connection identifier that is not in
\* activeTransports is answered 404 "Connection not found"; no handler is
\* invoked, no outbound request is made and nothing is written to any channel.
C23_UnknownConnectionNotFound ==
    [][(Posted /\ ~MapHas(activeTransports, requests'[Len(requests')].session))
         => /\ requests'[Len(requests')].status = 404
            /\ requests'[Len(requests')].body = "Connection not found"
            /\ requests'[Len(requests')].call = NoValue
            /\ SubSeq(requests', 1, Len(requests)) = requests
            /\ invocations' = invocations
            /\ fetches' = fetches
            /\ transports' = transports]_vars

\* A session is open and has had a request handled, and a later message went
\* to an identifier that is not in the mapping.
C23_Witness ==
    \E i, j \in 1..Len(requests) :
        /\ i < j
        /\ requests[i].status = 202
        /\ requests[j].status = 404
        /\ ~MapHas(activeTransports, requests[j].session)
        /\ MapHas(activeTransports, requests[i].session)

\* A message for session id can be POSTed and is handed to the server.
CanDispatch(id) ==
    ENABLED (/\ PostMessage(id, "tools/list", NameNonexistent, Undefined)
             /\ requests'[Len(requests')].status = 202)

\* C25: an exception raised by handlePostMessage for an open session is
\* answered 500; the process keeps running, activeTransports and the registry
\* are left as they were, nothing is written to a channel, and messages to
\* every session of the mapping are still dispatched afterwards.
C25_HandlingExceptionCaught ==
    /\ [][(Posted /\ requests'[Len(requests')].status = 500)
            => /\ MapHas(activeTransports, requests'[Len(requests')].session)
               /\ requests'[Len(requests')].body = "Internal server error"
               /\ requests'[Len(requests')].call = NoValue
               /\ alive'
               /\ activeTransports' = activeTransports
               /\ serverTransport' = serverTransport
               /\ tools' = tools
               /\ invocations' = invocations
               /\ transports' = transports]_vars
    /\ []((/\ \E i \in 1..Len(requests) : requests[i].status = 500
           /\ alive
           /\ nOps < MaxServerOps)
          => \A id \in MapKeys(activeTransports) : CanDispatch(id))

\* After a 500 on a session, a message on the same session and one on another
\* session were dispatched.
C25_Witness ==
    /\ alive
    /\ \E i, j \in 1..Len(requests) :
          /\ i < j
          /\ requests[i].status = 500
          /\ requests[j].status = 202
          /\ requests[j].call # NoValue
          /\ requests[j].session = requests[i].session

\* The calls handleToolCall(name, args) can have become.
HandleToolCallOutcomes(name, args) ==
    LET c == handleToolCall(tools, name, args)
    IN  IF c.state = "pending"
        THEN {c} \cup {AwaitHandler(c, p) : p \in HandlerSettlements(c.handler, c.args)}
        ELSE {c}

\* The tools/call requests handed to the server whose name is registered.
Forwarded ==
    SelectSeq(requests, LAMBDA r : /\ r.status = 202
                                   /\ r.method = "tools/call"
                                   /\ MapHas(tools, r.params.name))

\* C30: a tools/call request is forwarded to handleToolCall with the name and
\* the arguments of the request, an absent arguments value becoming the empty
\* object; a tools/list request is answered with getTools(); and the handlers
\* invoked are exactly those handleToolCall invoked for the forwarded requests.
C30_FrontEndForwards ==
    /\ \A i \in 1..Len(requests) :
          requests[i].status = 202
          => IF requests[i].method = "tools/list"
             THEN /\ requests[i].call.state = "resolved"
                  /\ requests[i].call.value = getTools(tools)
                  /\ requests[i].call.handler = NoHandler
             ELSE /\ requests[i].call.name = requests[i].params.name
                  /\ requests[i].call.args
                       = (IF requests[i].params.arguments = Undefined
                          THEN EmptyBag ELSE requests[i].params.arguments)
                  /\ requests[i].call
                       \in HandleToolCallOutcomes(requests[i].call.name, requests[i].call.args)
    /\ \A t \in 1..Len(transports) :
          \A k \in 1..Len(transports[t].channel) :
              transports[t].channel[k].payload
                  = requests[transports[t].channel[k].request].call
    /\ Len(invocations) = Len(Forwarded)
    /\ \A k \in 1..Len(Forwarded) :
          /\ invocations[k].handler = MapGet(tools, Forwarded[k].params.name).handler
          /\ invocations[k].args = Forwarded[k].call.args

\* A call request without arguments reached a registered handler with the
\* empty object, and a list request was answered.
C30_Witness ==
    \E i, j \in 1..Len(requests) :
        /\ requests[i].status = 202
        /\ requests[i].method = "tools/call"
        /\ requests[i].params.arguments = Undefined
        /\ requests[i].call.handler # NoHandler
        /\ requests[i].call.args = EmptyBag
        /\ requests[j].status = 202
        /\ requests[j].method = "tools/list"
        /\ requests[j].call.value = getTools(tools)

\* ------------------------------------------------- main() of main.ts
\* One endpoint, POST /message, and one variable `transport` for all connections.
MainNames == {NameTextStats, NameNonexistent}

MainArgs == {MainBag(Undefined, Undefined, StringValue(<<"a", " ", "b">>))}

\* The TypeError of `transport.handlePostMessage` while transport is undefined.
TypeErrorUndefined ==
    ErrorValue(<<"Cannot read properties of undefined (reading 'handlePostMessage')">>)

\* What handlePostMessage can throw.
TransportError == ErrorValue(<<"handlePostMessage failed">>)

\* The connections a message can belong to: the session identifiers the
\* transports created so far announced, or none when there is no connection.
Sessions ==
    IF transports = <<>> THEN {NoConnectionId}
    ELSE {transports[t].connectionId : t \in 1..Len(transports)}

\* const { server, cleanup } = createServer(); const app = express(); let transport
InitMain ==
    /\ tools = registerAll(<<>>, MainTOOLS)
    /\ lastReg = [n \in {} |-> NoValue]
    /\ nOps = 0
    /\ calls = <<>>
    /\ callReg = <<>>
    /\ listed = <<>>
    /\ regOrder = MapKeysInOrder(tools)
    /\ sinceList = "nothing"
    /\ batchRepeats = FALSE
    /\ alive = TRUE
    /\ transports = <<>>
    /\ activeTransports = <<>>
    /\ serverTransport = NoTransport
    /\ oncloseId = NoConnectionId
    /\ requests = <<>>
    /\ sdkCaptures \in BOOLEAN
    /\ transport = NoTransport
    /\ ToolsIdle

\* app.get("/sse"): transport = new SSEServerTransport("/message", res);
\* await server.connect(transport); server.onclose = ...
\* The transport draws its own session identifier.
MainSseConnect ==
    /\ alive
    /\ nOps < MaxServerOps
    /\ \E sessionId \in uuidv4(IssuedIds) :
          transports' = Append(transports, SSEServerTransport(sessionId))
    /\ transport' = Len(transports) + 1
    /\ serverTransport' = Len(transports) + 1
    /\ nOps' = nOps + 1
    /\ UNCHANGED <<tools, lastReg, calls, callReg, listed, regOrder, sinceList, batchRepeats,
                   alive, activeTransports, oncloseId, requests, sdkCaptures, toolVars>>

\* The async callback of app.post rejects with error: there is no try/catch.
\* Express 5 passes the rejection to its error handler, which answers 500;
\* Express 4 does not, and the unhandled rejection ends the process.
AsyncHandlerRejects(session, method, error) ==
    \E express5 \in BOOLEAN :
        /\ requests' = Append(requests,
               [session |-> session, transport |-> transport, method |-> method,
                params |-> NoValue, status |-> IF express5 THEN 500 ELSE 0,
                body |-> IF express5 THEN "Internal Server Error" ELSE "",
                captured |-> NoTransport, call |-> NoValue,
                uncaught |-> IF express5 THEN NoValue ELSE error])
        /\ alive' = express5
        /\ UNCHANGED <<transports, fetches, invocations>>

\* await transport.handlePostMessage(req, res) returns: the transport held by
\* the variable has answered 202 and handed the message to the server.
MainHandlePostMessage(session, method, name, arguments) ==
    LET r == [session |-> session, transport |-> transport, method |-> method,
              params |-> Params(method, name, arguments),
              status |-> 202, body |-> "Accepted", captured |-> serverTransport,
              call |-> Dispatch(method, name, arguments), uncaught |-> NoValue]
    IN  /\ requests' = Append(requests, r)
        /\ transports' = Send(transports, ResponseTransport(r), Response(r, Len(requests) + 1))
        /\ invocations' = invocations \o Invoked(r.call)
        /\ UNCHANGED <<fetches, alive>>

\* app.post("/message"): await transport.handlePostMessage(req, res), for a
\* message of the connection `session`.
MainPostMessage(session, method, name, arguments) ==
    /\ alive
    /\ nOps < MaxServerOps
    /\ nOps' = nOps + 1
    /\ IF transport = NoTransport
       THEN AsyncHandlerRejects(session, method, TypeErrorUndefined)
       ELSE \/ MainHandlePostMessage(session, method, name, arguments)
            \/ AsyncHandlerRejects(session, method, TransportError)
    /\ UNCHANGED <<tools, lastReg, calls, callReg, listed, regOrder, sinceList, batchRepeats,
                   activeTransports, serverTransport, oncloseId, sdkCaptures, transport,
                   input>>

\* The stream of transport t closes: the server drops its transport and calls
\* server.onclose: await cleanup(); await server.close(); process.exit(0)
MainTransportClose(t) ==
    /\ alive
    /\ transports[t].sseOpen
    /\ transports' = [transports EXCEPT ![t].sseOpen = FALSE]
    /\ serverTransport' = NoTransport
    /\ alive' = FALSE
    /\ UNCHANGED <<registryVars, activeTransports, oncloseId, requests, sdkCaptures, transport,
                   toolVars>>

NextMain ==
    \/ MainSseConnect
    \/ \E session \in Sessions, method \in ServerMethods, name \in MainNames,
          arguments \in MainArgs :
           MainPostMessage(session, method, name, arguments)
    \/ \E t \in 1..Len(transports) : MainTransportClose(t)

SpecMain == InitMain /\ [][NextMain]_vars

\* C24: in main.ts, a message that arrives while no connection has been opened
\* is rejected with no dispatch and no uncaught error, and a message that
\* arrives after a connection was opened is handled by the transport of the
\* connection it belongs to.
C24_SingleEndpointRouting ==
    \A i \in 1..Len(requests) :
        IF requests[i].session = NoConnectionId
        THEN /\ requests[i].call = NoValue
             /\ requests[i].uncaught = NoValue
             /\ requests[i].status >= 400
        ELSE requests[i].status = 202
             => transports[requests[i].transport].connectionId = requests[i].session

\* The calls that reached a handler, as the invocation each one made.
InvocationsOfCalls ==
    LET found == SelectSeq(calls, LAMBDA c : c.handler # NoHandler)
    IN  [k \in 1..Len(found) |-> [handler |-> found[k].handler, args |-> found[k].args]]

\* C26: when the handler of a registered name completes without throwing,
\* handleToolCall returns exactly the handler's result, a result with
\* isError = true included; the wrapper's own error text appears only when the
\* handler threw or rejected; and each call invokes the registered handler
\* exactly once, with the arguments of the call.
C26_HandlerResultUnmodified ==
    /\ \A i \in 1..Len(calls) :
          (calls[i].handler # NoHandler /\ Settled(calls[i]))
          => /\ calls[i].failure = NoValue
                => /\ calls[i].state = "resolved"
                   /\ \E p \in HandlerSettlements(calls[i].handler, calls[i].args) :
                         p.fate = "fulfilled" /\ calls[i].value = p.value
             /\ (/\ calls[i].state = "resolved"
                 /\ Len(Text(calls[i].value)) >= Len(ToolErrorPrefix)
                 /\ SubSeq(Text(calls[i].value), 1, Len(ToolErrorPrefix)) = ToolErrorPrefix)
                => calls[i].failure # NoValue
    /\ \A i \in 1..Len(calls) :
          calls[i].handler # NoHandler => calls[i].handler = callReg[i].handler
    /\ invocations = InvocationsOfCalls

\* A handler returned a result with isError = true and handleToolCall returned
\* it as it was, after one invocation.
C26_Witness ==
    \E i \in 1..Len(calls) :
        /\ calls[i].handler = "hErrResult"
        /\ calls[i].state = "resolved"
        /\ calls[i].failure = NoValue
        /\ calls[i].value.isError
        /\ invocations = <<[handler |-> "hErrResult", args |-> calls[i].args]>>

\* C27: registering a name that is already registered keeps the name at the
\* position of its first registration in the getTools() order: every step
\* leaves each registered name at its position, replaces the entry of a
\* re-registered name by the ToolHandler passed, and leaves every other entry
\* as it was.
C27_ReRegistrationKeepsPosition ==
    [][\A i \in 1..Len(getTools(tools)) :
          /\ i <= Len(getTools(tools'))
          /\ getTools(tools')[i].name = getTools(tools)[i].name
          /\ MapGet(tools', getTools(tools)[i].name) = lastReg'[getTools(tools)[i].name]
          /\ getTools(tools')[i] = lastReg'[getTools(tools)[i].name].tool
          /\ lastReg'[getTools(tools)[i].name] = lastReg[getTools(tools)[i].name]
             => /\ getTools(tools')[i] = getTools(tools)[i]
                /\ MapGet(tools', getTools(tools)[i].name)
                     = MapGet(tools, getTools(tools)[i].name)]_vars

\* getTools() listed two names; the first was then registered again with
\* another descriptor, and it is still first, the second entry untouched.
C27_Witness ==
    /\ Len(listed) = 2
    /\ Len(getTools(tools)) = 2
    /\ listed[1].name = getTools(tools)[1].name
    /\ listed[1] # getTools(tools)[1]
    /\ listed[2] = getTools(tools)[2]

HttpPrefixes ==
    {<<"h", "t", "t", "p", ":", "/", "/">>, <<"h", "t", "t", "p", "s", ":", "/", "/">>}

\* The value is a string that starts with http:// or https:// (in any letter
\* case) and goes on with at least one character.
PassesUrlValidation(v) ==
    /\ IsString(v)
    /\ \E prefix \in HttpPrefixes :
          /\ Len(v.value) > Len(prefix)
          /\ \A k \in 1..Len(prefix) : LowerCase(v.value[k]) = prefix[k]

\* C28: a call of fetchMetaTags issues at most one outbound request, and only
\* for a url that passed validation; whatever the request comes to (network
\* error, status that is not OK, unparsable body, body with an error field),
\* the handler returns a result with isError = true and throws nothing.
C28_FetchOnceAfterValidation ==
    /\ Len(fetches) <= Len(SelectSeq(calls, LAMBDA c : c.handler = "fetchMetaTags"))
    /\ \A k \in 1..Len(fetches) :
          /\ PassesUrlValidation(fetches[k].url)
          /\ \E i \in 1..Len(calls) :
                calls[i].handler = "fetchMetaTags" /\ calls[i].args.url = fetches[k].url
    /\ \A i \in 1..Len(calls) :
          calls[i].handler = "fetchMetaTags"
          => /\ ~PassesUrlValidation(calls[i].args.url)
                => fetches = <<>> /\ Settled(calls[i]) /\ calls[i].value.isError
             /\ \A o \in FetchOutcomes :
                   o.kind # "data"
                   => /\ Fulfilled(fetchMetaTags(calls[i].args, o))
                          \in HandlerSettlements("fetchMetaTags", calls[i].args)
                      /\ fetchMetaTags(calls[i].args, o).isError
             /\ \A p \in HandlerSettlements("fetchMetaTags", calls[i].args) :
                   p.fate = "fulfilled"
             /\ Settled(calls[i])
                => /\ calls[i].state = "resolved"
                   /\ calls[i].failure = NoValue
                   /\ IsEnvelope(calls[i].value)

\* The one request of a call with a valid url was issued and failed, and the
\* call returned a result with isError = true.
C28_Witness ==
    /\ Len(fetches) = 1
    /\ PassesUrlValidation(fetches[1].url)
    /\ calls # <<>>
    /\ calls[1].handler = "fetchMetaTags"
    /\ calls[1].state = "resolved"
    /\ calls[1].failure = NoValue
    /\ calls[1].value.isError

\* The characters encodeURIComponent leaves as they are, among those drawn.
UriUnreserved == {"a", "b", "h", "i"}

\* The UTF-8 code, in hexadecimal, of the other characters drawn.
Utf8Hex(ch) ==
    CASE ch = "\t" -> <<"0", "9">>
      [] ch = "\n" -> <<"0", "A">>
      [] ch = "\r" -> <<"0", "D">>
      [] ch = " " -> <<"2", "0">>
      [] ch = "\"" -> <<"2", "2">>
      [] ch = "#" -> <<"2", "3">>

\* The URI-component encoding of a string of well-formed characters.
UriComponent(str) ==
    LET Encoded(ch) == IF ch \in UriUnreserved THEN <<ch>> ELSE <<"%">> \o Utf8Hex(ch)
        Upto[n \in 0..Len(str)] == IF n = 0 THEN <<>> ELSE Upto[n - 1] \o Encoded(str[n])
    IN  Upto[Len(str)]

ReadpoPrefix ==
    <<"h", "t", "t", "p", "s", ":", "/", "/", "r", "e", "a", "d", "p", "o", ".", "c", "o", "m",
      "/", "p", "/">>

\* The value is not a string, or is empty or made of whitespace only.
IsBlank(v) == ~IsString(v) \/ \A k \in 1..Len(v.value) : v.value[k] \in WhiteSpace

\* C29: readpoPoster returns a result with isError = true when markdown is not
\* a string or is empty or whitespace-only, and otherwise a non-error result
\* whose text is "https://readpo.com/p/" followed by the URI-component
\* encoding of the markdown as given.
C29_ReadpoPosterLink ==
    \A i \in 1..Len(calls) :
        (calls[i].handler = "readpoPoster" /\ Settled(calls[i]))
        => IF IsBlank(calls[i].args.markdown)
           THEN calls[i].state = "resolved" /\ calls[i].value.isError
           ELSE /\ calls[i].state = "resolved"
                /\ ~calls[i].value.isError
                /\ Text(calls[i].value) = ReadpoPrefix \o UriComponent(calls[i].args.markdown.value)

=============================================================================
